---- MODULE Spec2Model ----
(***************************************************************************)
(* Model of obsidian-zotero-bridge: the identifier normalizer              *)
(* (zotero-utils), the outbound resolver (openInZotero), the remote lookup *)
(* client (queryZoteroBBT) and the inbound resolver (handleZoteroIncoming).*)
(*                                                                         *)
(* A JavaScript string is a sequence of one-character strings; a           *)
(* JavaScript value is a record tagged by its typeof in field t.           *)
(***************************************************************************)
EXTENDS Integers, Sequences, FiniteSets, TLC

VARIABLES nz, ck, fm, ex, tm, ob, ib, cc

vars == <<nz, ck, fm, ex, tm, ob, ib, cc>>

(***************************************************************************)
(* Bounds of the model.                                                    *)
(***************************************************************************)
MaxPieces == 4

MaxFields == 2

MaxValues == 2

MaxEntries == 2

MaxTerms == 2

MaxCandidates == 2

MaxNotes == 2

MaxInvocations == 2

(***************************************************************************)
(* JavaScript values.                                                      *)
(***************************************************************************)
JNull == [t |-> "null"]
JUndefined == [t |-> "undefined"]
JStr(s) == [t |-> "string", s |-> s]
JNum(n) == [t |-> "number", n |-> n]
JBool(b) == [t |-> "boolean", b |-> b]
JArr(a) == [t |-> "array", a |-> a]

IsStr(v) == v.t = "string"

(***************************************************************************)
(* Characters.                                                             *)
(***************************************************************************)
LowerLetters ==
  {"a","b","c","d","e","f","g","h","i","j","k","l","m",
   "n","o","p","q","r","s","t","u","v","w","x","y","z"}

UpperLetters ==
  {"A","B","C","D","E","F","G","H","I","J","K","L","M",
   "N","O","P","Q","R","S","T","U","V","W","X","Y","Z"}

Digits == {"0","1","2","3","4","5","6","7","8","9"}

WhiteSpace == {" ", "\t", "\n", "\r"}

LineTerminators == {"\n", "\r"}

LowerOf ==
  ("A" :> "a") @@ ("B" :> "b") @@ ("C" :> "c") @@ ("D" :> "d") @@
  ("E" :> "e") @@ ("F" :> "f") @@ ("G" :> "g") @@ ("H" :> "h") @@
  ("I" :> "i") @@ ("J" :> "j") @@ ("K" :> "k") @@ ("L" :> "l") @@
  ("M" :> "m") @@ ("N" :> "n") @@ ("O" :> "o") @@ ("P" :> "p") @@
  ("Q" :> "q") @@ ("R" :> "r") @@ ("S" :> "s") @@ ("T" :> "t") @@
  ("U" :> "u") @@ ("V" :> "v") @@ ("W" :> "w") @@ ("X" :> "x") @@
  ("Y" :> "y") @@ ("Z" :> "z")

LowerChar(c) == IF c \in UpperLetters THEN LowerOf[c] ELSE c

\* String.prototype.toLowerCase
toLowerCase(s) == [i \in 1..Len(s) |-> LowerChar(s[i])]

\* String.prototype.trim
trim(s) ==
  LET keep == {i \in 1..Len(s) : s[i] \notin WhiteSpace}
  IN  IF keep = {} THEN <<>>
      ELSE LET lo == CHOOSE i \in keep : \A j \in keep : i <= j
               hi == CHOOSE i \in keep : \A j \in keep : j <= i
           IN  SubSeq(s, lo, hi)

\* String.prototype.startsWith
startsWith(s, p) == Len(p) <= Len(s) /\ SubSeq(s, 1, Len(p)) = p

(***************************************************************************)
(* The regular expressions of zotero-utils.  A pattern is a sequence of    *)
(* items, anchored at both ends (^...$) and matched with the i flag:       *)
(*   lit   a literal                                                       *)
(*   opt   an optional literal (x?)                                        *)
(*   alt   a captured alternation of literals ((a|b))                      *)
(*   plus  a captured, greedy, non-empty run of a character class          *)
(* In every pattern of the source the character after a run is outside     *)
(* the run's class, so that greedy matching never backtracks.              *)
(***************************************************************************)
Lit(s) == [k |-> "lit", s |-> s]
Opt(s) == [k |-> "opt", s |-> s]
Alt(a) == [k |-> "alt", alts |-> a]
Plus(c) == [k |-> "plus", cls |-> c]

InClass(c, cls) ==
  CASE cls = "digit" -> c \in Digits
    [] cls = "alnum" -> c \in LowerLetters \cup UpperLetters \cup Digits
    [] cls = "dot"   -> c \notin LineTerminators

HasPrefixCI(s, i, p) ==
  /\ i + Len(p) - 1 <= Len(s)
  /\ \A j \in 1..Len(p) : LowerChar(s[i + j - 1]) = LowerChar(p[j])

RECURSIVE RunLength(_, _, _)
RunLength(s, i, cls) ==
  IF i <= Len(s) /\ InClass(s[i], cls) THEN 1 + RunLength(s, i + 1, cls) ELSE 0

NoMatch == [ok |-> FALSE, caps |-> <<>>]

RECURSIVE MatchFrom(_, _, _, _, _)
MatchFrom(pat, k, s, i, caps) ==
  IF k > Len(pat)
  THEN IF i = Len(s) + 1 THEN [ok |-> TRUE, caps |-> caps] ELSE NoMatch
  ELSE LET it == pat[k] IN
    CASE it.k = "lit" ->
           IF HasPrefixCI(s, i, it.s)
           THEN MatchFrom(pat, k + 1, s, i + Len(it.s), caps)
           ELSE NoMatch
      [] it.k = "opt" ->
           IF HasPrefixCI(s, i, it.s)
           THEN MatchFrom(pat, k + 1, s, i + Len(it.s), caps)
           ELSE MatchFrom(pat, k + 1, s, i, caps)
      [] it.k = "alt" ->
           LET hits == {a \in 1..Len(it.alts) : HasPrefixCI(s, i, it.alts[a])}
           IN  IF hits = {} THEN NoMatch
               ELSE LET a == CHOOSE a \in hits : \A b \in hits : a <= b
                        n == Len(it.alts[a])
                    IN  MatchFrom(pat, k + 1, s, i + n,
                                  Append(caps, SubSeq(s, i, i + n - 1)))
      [] it.k = "plus" ->
           LET n == RunLength(s, i, it.cls)
           IN  IF n = 0 THEN NoMatch
               ELSE MatchFrom(pat, k + 1, s, i + n,
                              Append(caps, SubSeq(s, i, i + n - 1)))

\* String.prototype.match for an anchored pattern
Match(s, pat) == MatchFrom(pat, 1, s, 1, <<>>)

(***************************************************************************)
(* Literals of zotero-utils.                                               *)
(***************************************************************************)
cScheme == <<"z","o","t","e","r","o",":","/","/","s","e","l","e","c","t","/">>
cHttp == <<"h","t","t","p">>
cS == <<"s">>
cHost == <<":","/","/","z","o","t","e","r","o",".","o","r","g","/">>
cUsers == <<"u","s","e","r","s">>
cGroups == <<"g","r","o","u","p","s">>
cSlash == <<"/">>
cGroupsSlash == <<"g","r","o","u","p","s","/">>
cSlashItemsSlash == <<"/","i","t","e","m","s","/">>
cItemsSlash == <<"i","t","e","m","s","/">>
cLibraryItems == <<"l","i","b","r","a","r","y","/","i","t","e","m","s","/">>
cUnderscore == <<"_">>
cZero == <<"0">>
cAt == <<"@">>

\* /^zotero:\/\/select\/(.+)$/i
schemeRe == <<Lit(cScheme), Plus("dot")>>

\* /^https?:\/\/zotero\.org\/(users|groups)\/(\d+)\/items\/([A-Za-z0-9]+)$/i
urlRe ==
  <<Lit(cHttp), Opt(cS), Lit(cHost), Alt(<<cUsers, cGroups>>), Lit(cSlash),
    Plus("digit"), Lit(cSlashItemsSlash), Plus("alnum")>>

\* /^groups\/(\d+)\/items\/([A-Za-z0-9]+)$/i
groupsRe == <<Lit(cGroupsSlash), Plus("digit"), Lit(cSlashItemsSlash), Plus("alnum")>>

\* /^library\/items\/([A-Za-z0-9]+)$/i
libraryRe == <<Lit(cLibraryItems), Plus("alnum")>>

\* /^items\/(\d+)_([A-Za-z0-9]+)$/i
bareItemsRe == <<Lit(cItemsSlash), Plus("digit"), Lit(cUnderscore), Plus("alnum")>>

\* /^(\d+)_([A-Za-z0-9]+)$/i
bareRe == <<Plus("digit"), Lit(cUnderscore), Plus("alnum")>>

\* /^([A-Za-z0-9]+)$/i
simpleKeyRe == <<Plus("alnum")>>

groupsPath(scopeId, key) == cGroupsSlash \o scopeId \o cSlashItemsSlash \o key

libraryPath(key) == cLibraryItems \o key

\* mutant: the library id 0 is not collapsed to the personal library
libraryOrGroup_NoZero(libraryId, key) == groupsPath(libraryId, key)

\* the libraryId === '0' branch shared by the two <N>_<KEY> rules
libraryOrGroup(libraryId, key) ==
  IF libraryId = cZero THEN libraryPath(key) ELSE groupsPath(libraryId, key)

normalizeZoteroSelectPath(rawId) ==
  IF rawId = <<>> THEN JNull
  ELSE LET trimmed == trim(rawId) IN
  IF trimmed = <<>> THEN JNull
  ELSE LET schemeMatch == Match(trimmed, schemeRe) IN
  IF schemeMatch.ok THEN JStr(schemeMatch.caps[1])
  ELSE LET urlMatch == Match(trimmed, urlRe) IN
  IF urlMatch.ok
  THEN IF toLowerCase(urlMatch.caps[1]) = cGroups
       THEN JStr(groupsPath(urlMatch.caps[2], urlMatch.caps[3]))
       ELSE JStr(libraryPath(urlMatch.caps[3]))
  ELSE LET groupsMatch == Match(trimmed, groupsRe) IN
  IF groupsMatch.ok THEN JStr(groupsPath(groupsMatch.caps[1], groupsMatch.caps[2]))
  ELSE LET libraryMatch == Match(trimmed, libraryRe) IN
  IF libraryMatch.ok THEN JStr(libraryPath(libraryMatch.caps[1]))
  ELSE LET bareItemsMatch == Match(trimmed, bareItemsRe) IN
  IF bareItemsMatch.ok
  THEN JStr(libraryOrGroup(bareItemsMatch.caps[1], bareItemsMatch.caps[2]))
  ELSE LET bareMatch == Match(trimmed, bareRe) IN
  IF bareMatch.ok THEN JStr(libraryOrGroup(bareMatch.caps[1], bareMatch.caps[2]))
  ELSE LET simpleKeyMatch == Match(trimmed, simpleKeyRe) IN
  IF simpleKeyMatch.ok THEN JStr(libraryPath(simpleKeyMatch.caps[1]))
  ELSE JNull

(***************************************************************************)
(* Specification of the select-path normalizer: a raw identifier is put    *)
(* together from pieces, normalizeZoteroSelectPath is applied to it, and   *)
(* then applied again to its own result.                                   *)
(***************************************************************************)
IdPieces ==
  { cScheme,
    <<"h","t","t","p","s",":","/","/","z","o","t","e","r","o",".","o","r","g","/","G","r","o","u","p","s","/">>,
    <<"h","t","t","p",":","/","/","Z","o","t","e","r","o",".","o","r","g","/","u","s","e","r","s","/">>,
    <<"G","r","o","u","p","s","/">>,
    <<"l","i","b","r","a","r","y">>,
    cSlashItemsSlash,
    cItemsSlash,
    cZero,
    <<"7">>,
    cUnderscore,
    <<"A","b">>,
    <<" ">> }

Idle == [pc |-> "idle"]

NzInit ==
  /\ nz = [pc |-> "input", rawId |-> <<>>, pieces |-> 0, first |-> JNull, second |-> JNull]
  /\ ck = Idle /\ fm = Idle /\ ex = Idle /\ tm = Idle /\ ob = Idle /\ ib = Idle /\ cc = Idle

NzAppend ==
  /\ nz.pc = "input"
  /\ nz.pieces < MaxPieces
  /\ \E p \in IdPieces :
       nz' = [nz EXCEPT !.rawId = @ \o p, !.pieces = @ + 1]
  /\ UNCHANGED <<ck, fm, ex, tm, ob, ib, cc>>

NzNormalize ==
  /\ nz.pc = "input"
  /\ nz' = [nz EXCEPT !.pc = "normalized", !.first = normalizeZoteroSelectPath(nz.rawId)]
  /\ UNCHANGED <<ck, fm, ex, tm, ob, ib, cc>>

NzNormalizeAgain ==
  /\ nz.pc = "normalized"
  /\ IsStr(nz.first)
  /\ nz' = [nz EXCEPT !.pc = "renormalized", !.second = normalizeZoteroSelectPath(nz.first.s)]
  /\ UNCHANGED <<ck, fm, ex, tm, ob, ib, cc>>

NzNext == NzAppend \/ NzNormalize \/ NzNormalizeAgain

SpecNormalize ==
  NzInit /\ [][NzNext]_vars

(***************************************************************************)
(* Citation keys.                                                          *)
(***************************************************************************)
DigitChars == <<"0","1","2","3","4","5","6","7","8","9">>

RECURSIVE digitsOf(_)
digitsOf(n) ==
  IF n < 10 THEN <<DigitChars[n + 1]>>
  ELSE digitsOf(n \div 10) \o <<DigitChars[(n % 10) + 1]>>

\* String(raw) for an integer
String(n) == IF n < 0 THEN <<"-">> \o digitsOf(0 - n) ELSE digitsOf(n)

\* mutant: the leading @ is kept
stripAt_Keep(trimmed) == trimmed

\* trimmed.startsWith('@') ? trimmed.slice(1) : trimmed
stripAt(trimmed) ==
  IF startsWith(trimmed, cAt) THEN SubSeq(trimmed, 2, Len(trimmed)) ELSE trimmed

normalizeCitekey(raw) ==
  LET asText == IF raw.t = "number" THEN JStr(String(raw.n)) ELSE raw IN
  IF asText.t # "string" THEN JNull
  ELSE LET trimmed == trim(asText.s) IN
  IF trimmed = <<>> THEN JNull
  ELSE LET withoutAt == stripAt(trimmed) IN
  IF withoutAt = <<>> THEN JNull
  ELSE JStr(toLowerCase(withoutAt))

(***************************************************************************)
(* Specification of the citation-key normalizer: a value is either typed   *)
(* in piece by piece (a string) or is a number or a value of another type, *)
(* and normalizeCitekey is applied to it.                                  *)
(***************************************************************************)
CkPieces == { cAt, <<" ">>, <<"A","b">>, <<"x">> }

CkValues ==
  { JStr(<<>>), JNum(0), JNum(7), JNum(1234), JNum(0 - 35),
    JUndefined, JNull, JBool(TRUE), JArr(<<JStr(<<"x">>)>>) }

CkInit ==
  /\ ck \in { [pc |-> "input", raw |-> v, pieces |-> 0, out |-> JNull] : v \in CkValues }
  /\ nz = Idle /\ fm = Idle /\ ex = Idle /\ tm = Idle /\ ob = Idle /\ ib = Idle /\ cc = Idle

CkAppend ==
  /\ ck.pc = "input"
  /\ IsStr(ck.raw)
  /\ ck.pieces < MaxPieces
  /\ \E p \in CkPieces :
       ck' = [ck EXCEPT !.raw = JStr(@.s \o p), !.pieces = @ + 1]
  /\ UNCHANGED <<nz, fm, ex, tm, ob, ib, cc>>

CkNormalize ==
  /\ ck.pc = "input"
  /\ ck' = [ck EXCEPT !.pc = "normalized", !.out = normalizeCitekey(ck.raw)]
  /\ UNCHANGED <<nz, fm, ex, tm, ob, ib, cc>>

CkNext == CkAppend \/ CkNormalize

SpecCitekey ==
  CkInit /\ [][CkNext]_vars

(***************************************************************************)
(* Citation keys of a note header (frontmatter).  A header is null,        *)
(* undefined or an object; an object is the sequence of its entries in     *)
(* Object.entries order.                                                   *)
(***************************************************************************)
JObj(e) == [t |-> "object", e |-> e]

citekeyFields ==
  { <<"c","i","t","e","k","e","y">>,
    <<"c","i","t","e","-","k","e","y">>,
    <<"z","o","t","e","r","o","-","k","e","y">>,
    <<"z","o","t","e","r","o","_","k","e","y">>,
    <<"z","o","t","e","r","o","k","e","y">>,
    <<"b","b","t","-","c","i","t","e","k","e","y">>,
    <<"b","b","t","_","c","i","t","e","k","e","y">>,
    <<"b","e","t","t","e","r","-","b","i","b","t","e","x","-","c","i","t","e","k","e","y">>,
    <<"b","e","t","t","e","r","b","i","b","t","e","x","c","i","t","e","k","e","y">> }

isCitekeyField(key) == key \in citekeyFields

\* Array.prototype.includes on a list of strings
includes(bucket, x) == \E i \in DOMAIN bucket : bucket[i] = x

\* mutant: a key is pushed without looking for it in the bucket
pushNormalized_NoDedup(bucket, entry) ==
  LET normalized == normalizeCitekey(entry) IN
  IF normalized # JNull THEN Append(bucket, normalized.s) ELSE bucket

\* if (normalized && !bucket.includes(normalized)) bucket.push(normalized)
pushNormalized(bucket, entry) ==
  LET normalized == normalizeCitekey(entry) IN
  IF normalized # JNull /\ normalized.s # <<>> /\ ~includes(bucket, normalized.s)
  THEN Append(bucket, normalized.s)
  ELSE bucket

RECURSIVE pushAll(_, _, _)
pushAll(bucket, a, i) ==
  IF i > Len(a) THEN bucket ELSE pushAll(pushNormalized(bucket, a[i]), a, i + 1)

collectNormalizedValues(rawValue, bucket) ==
  IF rawValue.t = "array" THEN pushAll(bucket, rawValue.a, 1)
  ELSE pushNormalized(bucket, rawValue)

RECURSIVE collectEntries(_, _, _)
collectEntries(entries, i, keys) ==
  IF i > Len(entries) THEN keys
  ELSE LET key == toLowerCase(trim(entries[i].k)) IN
       IF ~isCitekeyField(key) THEN collectEntries(entries, i + 1, keys)
       ELSE collectEntries(entries, i + 1, collectNormalizedValues(entries[i].v, keys))

collectNormalizedCitekeys(frontmatter) ==
  IF frontmatter.t # "object" THEN <<>>
  ELSE collectEntries(frontmatter.e, 1, <<>>)

(***************************************************************************)
(* Specification of the header scan: a header is written field by field,   *)
(* a field holding a scalar or a list, and collectNormalizedCitekeys is    *)
(* applied to it.                                                          *)
(***************************************************************************)
FieldNames ==
  { <<"c","i","t","e","k","e","y">>,
    <<"Z","o","t","e","r","o","-","K","e","y">>,
    <<"c","i","t","e","_","k","e","y">>,
    <<"T","i","t","l","e">> }

Scalars ==
  { JStr(<<"@","A","b">>), JStr(<<"a","b">>), JStr(<<"C","d">>), JStr(cAt), JNum(7), JNull }

FmInit ==
  /\ fm \in { [pc |-> "input", frontmatter |-> h, values |-> 0, keys |-> <<>>] :
             h \in {JNull, JUndefined, JObj(<<>>)} }
  /\ nz = Idle /\ ck = Idle /\ ex = Idle /\ tm = Idle /\ ob = Idle /\ ib = Idle /\ cc = Idle

FmFreeNames == FieldNames \ { fm.frontmatter.e[i].k : i \in DOMAIN fm.frontmatter.e }

FmAddScalar ==
  /\ fm.pc = "input"
  /\ fm.frontmatter.t = "object"
  /\ Len(fm.frontmatter.e) < MaxFields
  /\ fm.values < MaxValues
  /\ \E k \in FmFreeNames, v \in Scalars :
       fm' = [fm EXCEPT !.frontmatter = JObj(Append(@.e, [k |-> k, v |-> v])),
                        !.values = @ + 1]
  /\ UNCHANGED <<nz, ck, ex, tm, ob, ib, cc>>

FmAddList ==
  /\ fm.pc = "input"
  /\ fm.frontmatter.t = "object"
  /\ Len(fm.frontmatter.e) < MaxFields
  /\ \E k \in FmFreeNames :
       fm' = [fm EXCEPT !.frontmatter = JObj(Append(@.e, [k |-> k, v |-> JArr(<<>>)]))]
  /\ UNCHANGED <<nz, ck, ex, tm, ob, ib, cc>>

FmAppendElement ==
  /\ fm.pc = "input"
  /\ fm.frontmatter.t = "object"
  /\ fm.values < MaxValues
  /\ LET e == fm.frontmatter.e IN
     /\ e # <<>>
     /\ e[Len(e)].v.t = "array"
     /\ \E v \in Scalars :
          fm' = [fm EXCEPT !.frontmatter =
                             JObj([e EXCEPT ![Len(e)].v = JArr(Append(@.a, v))]),
                           !.values = @ + 1]
  /\ UNCHANGED <<nz, ck, ex, tm, ob, ib, cc>>

FmCollect ==
  /\ fm.pc = "input"
  /\ fm' = [fm EXCEPT !.pc = "collected", !.keys = collectNormalizedCitekeys(fm.frontmatter)]
  /\ UNCHANGED <<nz, ck, ex, tm, ob, ib, cc>>

FmNext == FmAddScalar \/ FmAddList \/ FmAppendElement \/ FmCollect

SpecCollect ==
  FmInit /\ [][FmNext]_vars

(***************************************************************************)
(* Candidate records of the remote lookup.  A record carries the fields    *)
(* the code reads; a field the record does not have reads as undefined.    *)
(***************************************************************************)
JRec(id, key, itemKey, groupID, groupId, title) ==
  [t |-> "object", id |-> id, key |-> key, itemKey |-> itemKey,
   groupID |-> groupID, groupId |-> groupId, title |-> title]

JNaN == [t |-> "number", nan |-> TRUE]

\* JavaScript truthiness
Truthy(v) ==
  CASE v.t = "null" -> FALSE
    [] v.t = "undefined" -> FALSE
    [] v.t = "boolean" -> v.b
    [] v.t = "string" -> v.s # <<>>
    [] v.t = "number" -> IF "nan" \in DOMAIN v THEN FALSE ELSE v.n # 0
    [] OTHER -> TRUE

\* a || b
OrElse(a, b) == IF Truthy(a) THEN a ELSE b

\* a ?? b
Coalesce(a, b) == IF a.t \in {"null", "undefined"} THEN b ELSE a

RECURSIVE digitsValue(_)
digitsValue(d) ==
  IF d = <<>> THEN 0
  ELSE 10 * digitsValue(SubSeq(d, 1, Len(d) - 1))
       + (CHOOSE v \in 0..9 : DigitChars[v + 1] = d[Len(d)])

\* Number(value) for a string: white space is trimmed, the empty string is 0,
\* a run of decimal digits is its value, any other text of the model is NaN
Number(s) ==
  LET text == trim(s) IN
  IF text = <<>> THEN JNum(0)
  ELSE IF \A i \in DOMAIN text : text[i] \in Digits THEN JNum(digitsValue(text))
  ELSE JNaN

\* Number.isFinite
isFinite(v) == v.t = "number" /\ "nan" \notin DOMAIN v

extractNumericId(value) ==
  IF isFinite(value) THEN value
  ELSE IF value.t = "string" /\ isFinite(Number(value.s)) THEN Number(value.s)
  ELSE JUndefined

\* the typeof entry === 'object' branch of extractZoteroSelectPath
extractFromRecord(record) ==
  LET normalized ==
        IF record.id.t = "string" THEN normalizeZoteroSelectPath(record.id.s) ELSE JNull
      keyValue == OrElse(record.key, record.itemKey)
      groupId == extractNumericId(Coalesce(record.groupID, record.groupId))
  IN  IF Truthy(normalized) THEN normalized
      ELSE IF keyValue.t = "string"
      THEN IF groupId.t = "number"
           THEN JStr(cGroupsSlash \o String(groupId.n) \o cSlashItemsSlash \o keyValue.s)
           ELSE JStr(libraryPath(keyValue.s))
      ELSE JNull

extractZoteroSelectPath(entry) ==
  IF ~Truthy(entry) THEN JNull
  ELSE IF entry.t = "string" THEN normalizeZoteroSelectPath(entry.s)
  ELSE IF entry.t = "object" THEN extractFromRecord(entry)
  ELSE JNull

(***************************************************************************)
(* Specification of the select-path extraction: extractZoteroSelectPath is *)
(* applied to a candidate.                                                 *)
(***************************************************************************)
cAbKey == <<"A","b">>

ExCandidates ==
  { JRec(i, k, ik, g1, g2, JUndefined) :
      i \in { JUndefined, JStr(<<>>), JStr(cAbKey), JStr(<<"a","-","b">>),
               JStr(cScheme \o groupsPath(<<"7">>, cAbKey)), JNum(5) },
      k \in { JUndefined, JStr(<<>>), JStr(<<"K","x">>), JNum(7) },
      ik \in { JUndefined, JStr(<<"I","y">>) },
      g1 \in { JUndefined, JNull, JNum(7), JStr(<<"9">>), JStr(<<>>), JStr(<<"x">>) },
      g2 \in { JUndefined, JNum(3), JStr(<<"4">>) } }
  \cup { JNull, JUndefined, JNum(5), JStr(<<>>), JStr(cAbKey),
         JStr(cScheme \o groupsPath(<<"1">>, cAbKey)), JStr(<<"a","-","b">>) }

ExInit ==
  /\ ex \in { [pc |-> "input", entry |-> e, out |-> JNull] : e \in ExCandidates }
  /\ nz = Idle /\ ck = Idle /\ fm = Idle /\ tm = Idle /\ ob = Idle /\ ib = Idle /\ cc = Idle

ExExtract ==
  /\ ex.pc = "input"
  /\ ex' = [ex EXCEPT !.pc = "extracted", !.out = extractZoteroSelectPath(ex.entry)]
  /\ UNCHANGED <<nz, ck, fm, tm, ob, ib, cc>>

ExNext == ExExtract

SpecExtract ==
  ExInit /\ [][ExNext]_vars

(***************************************************************************)
(* Title matching.                                                         *)
(***************************************************************************)
\* String.prototype.includes
strIncludes(text, term) ==
  \E i \in 0..(Len(text) - Len(term)) : SubSeq(text, i + 1, i + Len(term)) = term

extractTitleFromEntry(entry) ==
  IF ~Truthy(entry) \/ entry.t # "object" THEN JNull
  ELSE IF entry.title.t = "string"
  THEN LET trimmed == trim(entry.title.s) IN
       IF Len(trimmed) > 0 THEN JStr(trimmed) ELSE JNull
  ELSE JNull

\* mutant: one term found in the title is enough
hitsAllTerms_Some(lowerTitle, terms) ==
  \E i \in DOMAIN terms : strIncludes(lowerTitle, terms[i])

\* effectiveTerms.every(term => lowerTitle.includes(term))
hitsAllTerms(lowerTitle, terms) ==
  \A i \in DOMAIN terms : strIncludes(lowerTitle, terms[i])

\* the loop of findTitleMatch from entry i on: the index of the entry it
\* returns, 0 when it runs to the end
RECURSIVE findTitleFrom(_, _, _)
findTitleFrom(entries, terms, i) ==
  IF i > Len(entries) THEN 0
  ELSE LET title == extractTitleFromEntry(entries[i]) IN
       IF ~Truthy(title) THEN findTitleFrom(entries, terms, i + 1)
       ELSE IF Len(terms) = 0 THEN i
       ELSE IF hitsAllTerms(toLowerCase(title.s), terms) THEN i
       ELSE findTitleFrom(entries, terms, i + 1)

findTitleIndex(entries, terms) ==
  IF Len(entries) = 0 THEN 0 ELSE findTitleFrom(entries, terms, 1)

findTitleMatch(entries, terms) ==
  LET i == findTitleIndex(entries, terms) IN
  IF i = 0 THEN JNull ELSE entries[i]

(***************************************************************************)
(* Specification of the title match: a candidate list and a term list are  *)
(* put together and findTitleMatch is applied to them.                     *)
(***************************************************************************)
Titled(title) == JRec(JUndefined, JUndefined, JUndefined, JUndefined, JUndefined, title)

TmEntries ==
  { Titled(JUndefined), Titled(JStr(<<>>)), Titled(JStr(<<" ">>)),
    Titled(JStr(<<"A","b"," ","c","d">>)), Titled(JStr(<<" ","a","b"," ">>)),
    Titled(JStr(<<"C","D"," ","e">>)), JNull, JStr(<<"a","b">>) }

TmTerms == { <<"a","b">>, <<"c","d">>, <<"e">>, <<"b"," ">>, <<"A">> }

TmInit ==
  /\ tm = [pc |-> "input", entries |-> <<>>, terms |-> <<>>, found |-> 0, match |-> JNull]
  /\ nz = Idle /\ ck = Idle /\ fm = Idle /\ ex = Idle /\ ob = Idle /\ ib = Idle /\ cc = Idle

TmAddEntry ==
  /\ tm.pc = "input"
  /\ Len(tm.entries) < MaxEntries
  /\ \E e \in TmEntries : tm' = [tm EXCEPT !.entries = Append(@, e)]
  /\ UNCHANGED <<nz, ck, fm, ex, ob, ib, cc>>

TmAddTerm ==
  /\ tm.pc = "input"
  /\ Len(tm.terms) < MaxTerms
  /\ \E w \in TmTerms : tm' = [tm EXCEPT !.terms = Append(@, w)]
  /\ UNCHANGED <<nz, ck, fm, ex, ob, ib, cc>>

TmFind ==
  /\ tm.pc = "input"
  /\ tm' = [tm EXCEPT !.pc = "found",
                      !.found = findTitleIndex(tm.entries, tm.terms),
                      !.match = findTitleMatch(tm.entries, tm.terms)]
  /\ UNCHANGED <<nz, ck, fm, ex, ob, ib, cc>>

TmNext == TmAddEntry \/ TmAddTerm \/ TmFind

SpecTitle ==
  TmInit /\ [][TmNext]_vars

(***************************************************************************)
(* The remote lookup client.  A request to the Better BibTeX endpoint ends *)
(* in one of: the transport rejecting (reject), a body that is not JSON    *)
(* (nojson), or a JSON body whose result field is any value (json).        *)
(***************************************************************************)
Rejected == [kind |-> "reject"]
NoJson == [kind |-> "nojson"]
Json(result) == [kind |-> "json", result |-> result]

\* mutant: no try/catch around requestUrl
queryZoteroBBT_NoCatch(response) ==
  IF response.kind # "json" THEN [threw |-> TRUE, list |-> <<>>]
  ELSE IF response.result.t = "array" THEN [threw |-> FALSE, list |-> response.result.a]
  ELSE [threw |-> FALSE, list |-> <<>>]

\* what queryZoteroBBT hands to its caller once the request has ended
queryZoteroBBT(response) ==
  IF response.kind # "json" THEN [threw |-> FALSE, list |-> <<>>]
  ELSE IF response.result.t = "array" THEN [threw |-> FALSE, list |-> response.result.a]
  ELSE [threw |-> FALSE, list |-> <<>>]

\* mutant: the last candidate is taken instead of the first
searchZoteroByBBT_Last(results) ==
  IF Len(results) > 0 THEN extractZoteroSelectPath(results[Len(results)]) ELSE JNull

\* searchZoteroByBBT, after the lookup has returned results
searchZoteroByBBT(results) ==
  IF Len(results) > 0 THEN extractZoteroSelectPath(results[1]) ELSE JNull

(***************************************************************************)
(* The outbound resolver (openInZotero).                                   *)
(***************************************************************************)
IsLetterOrDigit(c) == c \in LowerLetters \cup UpperLetters \cup Digits

\* title.replace(/[^\p{L}\p{N}]+/gu, " ")
RECURSIVE cleanFrom(_, _)
cleanFrom(s, i) ==
  IF i > Len(s) THEN <<>>
  ELSE IF IsLetterOrDigit(s[i]) THEN <<s[i]>> \o cleanFrom(s, i + 1)
  ELSE IF i > 1 /\ ~IsLetterOrDigit(s[i - 1]) THEN cleanFrom(s, i + 1)
  ELSE <<" ">> \o cleanFrom(s, i + 1)

cleanTitleOf(basename) == cleanFrom(basename, 1)

\* cleanTitle.split(/\s+/)
RECURSIVE splitFrom(_, _, _)
splitFrom(s, i, cur) ==
  IF i > Len(s) THEN <<cur>>
  ELSE IF s[i] \in WhiteSpace
  THEN IF i > 1 /\ s[i - 1] \in WhiteSpace THEN splitFrom(s, i + 1, cur)
       ELSE <<cur>> \o splitFrom(s, i + 1, <<>>)
  ELSE splitFrom(s, i + 1, Append(cur, s[i]))

splitOnSpace(s) == splitFrom(s, 1, <<>>)

NonEmpty(x) == x # <<>>

\* .filter(Boolean) on a list of strings
filterBoolean(list) == SelectSeq(list, NonEmpty)

\* Array.from(new Set(list))
RECURSIVE uniqueFrom(_, _, _)
uniqueFrom(list, i, acc) ==
  IF i > Len(list) THEN acc
  ELSE IF includes(acc, list[i]) THEN uniqueFrom(list, i + 1, acc)
  ELSE uniqueFrom(list, i + 1, Append(acc, list[i]))

titleTerms(cleanTitle) == filterBoolean(splitOnSpace(cleanTitle))

normalizedTermsOf(cleanTitle) ==
  [i \in DOMAIN titleTerms(cleanTitle) |-> toLowerCase(titleTerms(cleanTitle)[i])]

\* mutant: the queries are not deduplicated
titleQueries_NoDedup(cleanTitle) ==
  filterBoolean(<<cleanTitle>> \o titleTerms(cleanTitle))

titleQueries(cleanTitle) ==
  filterBoolean(uniqueFrom(<<cleanTitle>> \o titleTerms(cleanTitle), 1, <<>>))

cCitekey == <<"c","i","t","e","k","e","y">>

cZoteroKey == <<"z","o","t","e","r","o","-","k","e","y">>

\* frontmatter?.[name]: the value of the own property called name
propertyOf(frontmatter, name) ==
  IF frontmatter.t # "object" THEN JUndefined
  ELSE LET at == {i \in DOMAIN frontmatter.e : frontmatter.e[i].k = name} IN
       IF at = {} THEN JUndefined ELSE frontmatter.e[CHOOSE i \in at : TRUE].v

\* frontmatter?.['citekey'] || frontmatter?.['zotero-key']
declaredCitekey(file) ==
  OrElse(propertyOf(file.frontmatter, cCitekey), propertyOf(file.frontmatter, cZoteroKey))

selectUri(path) == JStr(cScheme \o path.s)

(***************************************************************************)
(* Specification of the outbound resolver: the command is run on a note,   *)
(* each request to the remote lookup ends with some response, and the      *)
(* resolver goes on from its await.                                        *)
(***************************************************************************)
ObHeaders ==
  { JUndefined, JObj(<<>>),
    JObj(<< [k |-> cCitekey, v |-> JStr(<<>>)] >>),
    JObj(<< [k |-> cCitekey, v |-> JStr(<<"d","o","e">>)] >>),
    JObj(<< [k |-> cZoteroKey, v |-> JStr(<<"k","2">>)] >>),
    JObj(<< [k |-> cCitekey, v |-> JStr(<<>>)], [k |-> cZoteroKey, v |-> JStr(<<"k","2">>)] >>),
    JObj(<< [k |-> cZoteroKey, v |-> JStr(<<"k","2">>)], [k |-> cCitekey, v |-> JStr(<<"d","o","e">>)] >>),
    JObj(<< [k |-> <<"c","i","t","e","-","k","e","y">>, v |-> JStr(<<"d","o","e">>)] >>),
    JObj(<< [k |-> <<"C","i","t","e","k","e","y">>, v |-> JStr(<<"d","o","e">>)] >>),
    JObj(<< [k |-> cCitekey, v |-> JArr(<<JStr(<<"d","o","e">>), JStr(<<"k","2">>)>>)] >>) }

ObFiles ==
  { [frontmatter |-> h, basename |-> b] :
      h \in ObHeaders,
      b \in { <<"A","b"," ","c","d">>, <<"A","b">>, <<"-","A","b">>, <<"-","-">> } }

ObCandidates ==
  { JRec(JStr(cScheme \o libraryPath(cAbKey)), JUndefined, JUndefined, JUndefined, JUndefined,
         JStr(<<"A","b"," ","c","d">>)),
    JRec(JUndefined, JStr(<<"K","x">>), JUndefined, JNum(7), JUndefined, JStr(<<"a","b">>)),
    JRec(JUndefined, JUndefined, JUndefined, JUndefined, JUndefined,
         JStr(<<" ","A","B"," ","C","D"," ">>)) }

RECURSIVE ListsUpTo(_, _)
ListsUpTo(S, n) ==
  IF n = 0 THEN { <<>> }
  ELSE ListsUpTo(S, n - 1)
       \cup { Append(l, x) : l \in {m \in ListsUpTo(S, n - 1) : Len(m) = n - 1}, x \in S }

ObResponses ==
  { Rejected, NoJson, Json(JUndefined), Json(JStr(<<"e","r","r">>)) }
  \cup { Json(JArr(l)) : l \in ListsUpTo(ObCandidates, MaxCandidates) }

\* an invocation of the command that has not run yet
ObStart ==
  [pc |-> "ready", file |-> [frontmatter |-> JUndefined, basename |-> <<>>],
   queries |-> <<>>, terms |-> <<>>, qi |-> 0,
   calls |-> 0, requests |-> <<>>, returns |-> 0,
   keyFirst |-> JUndefined, lastResponse |-> NoJson, lastResult |-> <<>>,
   results |-> <<>>, opened |-> JNull, notices |-> <<>>]

ObInit ==
  /\ ob = ObStart
  /\ nz = Idle /\ ck = Idle /\ fm = Idle /\ ex = Idle /\ tm = Idle /\ ib = Idle /\ cc = Idle

\* mutant: the title is taken from the note that is active when Plan B starts
titleOf_ActiveNow(file, activeFile) == activeFile.basename

\* const title = file.basename: the note the flow was started on, whatever
\* note is active by now
titleOf(file, activeFile) == file.basename

\* Plan B up to its first await: the notice, the query list, and the request
\* for the first query; with no query searchByTitle returns null at once
ObPlanB(o, notices, activeFile) ==
  LET cleanTitle == cleanTitleOf(titleOf(o.file, activeFile))
      queries == titleQueries(cleanTitle)
      started == [o EXCEPT !.queries = queries,
                           !.terms = normalizedTermsOf(cleanTitle),
                           !.notices = Append(notices, "searching")]
  IN  IF Len(queries) = 0
      THEN [started EXCEPT !.pc = "done", !.notices = Append(@, "noMatch")]
      ELSE [started EXCEPT !.pc = "titleAwait", !.qi = 1, !.calls = @ + 1,
                           !.requests = Append(@, [plan |-> "title", query |-> JStr(queries[1])])]

\* openInZotero(file) up to its first await
openInZotero(o, f) ==
  LET s == [o EXCEPT !.file = f] IN
  IF Truthy(declaredCitekey(f))
  THEN [s EXCEPT !.pc = "keyAwait", !.calls = @ + 1,
                 !.requests = Append(@, [plan |-> "key", query |-> declaredCitekey(f)])]
  ELSE ObPlanB(s, s.notices, f)

\* openInZotero from the response to the key lookup up to its next await
afterKeyLookup(o, r, activeFile) ==
  LET got == queryZoteroBBT(r)
      s == [o EXCEPT !.returns = @ + 1, !.lastResponse = r, !.lastResult = got.list,
                     !.results = Append(@, got.list),
                     !.keyFirst = IF Len(got.list) > 0 THEN got.list[1] ELSE JUndefined]
      selectPath == searchZoteroByBBT(got.list)
  IN  IF got.threw THEN [o EXCEPT !.pc = "crashed", !.lastResponse = r]
      ELSE IF Truthy(selectPath)
      THEN [s EXCEPT !.pc = "done", !.opened = selectUri(selectPath),
                     !.notices = Append(@, "opening")]
      ELSE ObPlanB(s, Append(s.notices, "keyNotFound"), activeFile)

\* searchByTitle from the response to a title lookup up to its next await, or
\* to the end of openInZotero
afterTitleLookup(o, r) ==
  LET got == queryZoteroBBT(r)
      s == [o EXCEPT !.returns = @ + 1, !.lastResponse = r, !.lastResult = got.list,
                     !.results = Append(@, got.list)]
      match == findTitleMatch(got.list, o.terms)
      selectPathByTitle == extractZoteroSelectPath(match)
  IN  IF got.threw THEN [o EXCEPT !.pc = "crashed", !.lastResponse = r]
      ELSE IF Truthy(match)
      THEN IF Truthy(selectPathByTitle)
           THEN [s EXCEPT !.pc = "done", !.opened = selectUri(selectPathByTitle),
                          !.notices = Append(@, "foundByTitle")]
           ELSE [s EXCEPT !.pc = "done", !.notices = Append(@, "noMatch")]
      ELSE IF o.qi < Len(o.queries)
      THEN [s EXCEPT !.qi = @ + 1, !.calls = @ + 1,
                     !.requests = Append(@, [plan |-> "title",
                                             query |-> JStr(o.queries[o.qi + 1])])]
      ELSE [s EXCEPT !.pc = "done", !.notices = Append(@, "noMatch")]

ObInvoke ==
  /\ ob.pc = "ready"
  /\ \E f \in ObFiles : ob' = openInZotero(ob, f)
  /\ UNCHANGED <<nz, ck, fm, ex, tm, ib, cc>>

ObKeyResponse ==
  /\ ob.pc = "keyAwait"
  /\ \E r \in ObResponses : ob' = afterKeyLookup(ob, r, ob.file)
  /\ UNCHANGED <<nz, ck, fm, ex, tm, ib, cc>>

ObTitleResponse ==
  /\ ob.pc = "titleAwait"
  /\ \E r \in ObResponses : ob' = afterTitleLookup(ob, r)
  /\ UNCHANGED <<nz, ck, fm, ex, tm, ib, cc>>

ObNext == ObInvoke \/ ObKeyResponse \/ ObTitleResponse

SpecOutbound ==
  ObInit /\ [][ObNext]_vars

(***************************************************************************)
(* The inbound resolver (handleZoteroIncoming).  A note has a display      *)
(* name, the header the metadata cache holds for it (undefined when the    *)
(* cache has none), and its raw content: whether cachedRead succeeds,      *)
(* whether the content has a leading ---...--- block, and what parseYaml   *)
(* makes of the block.                                                     *)
(***************************************************************************)
YamlError == [t |-> "error"]

Content(read, fenced, yaml) == [read |-> read, fenced |-> fenced, yaml |-> yaml]

Note(basename, cache, content) == [basename |-> basename, cache |-> cache, content |-> content]

\* extractFrontmatter: null without the block or when parseYaml throws,
\* the parsed value when it is an object
extractFrontmatter(content) ==
  IF ~content.fenced THEN JNull
  ELSE IF content.yaml = YamlError THEN JNull
  ELSE IF Truthy(content.yaml) /\ content.yaml.t \in {"object", "array"} THEN content.yaml
  ELSE JNull

\* mutant: only the cached header is looked at
getNormalizedCitekeys_CacheOnly(file) ==
  [keys |-> collectNormalizedCitekeys(file.cache), read |-> FALSE]

\* mutant: the raw content is read and parsed for every note
getNormalizedCitekeys_AlwaysRead(file) ==
  IF file.content.read # "ok" THEN [keys |-> <<>>, read |-> TRUE]
  ELSE [keys |-> collectNormalizedCitekeys(extractFrontmatter(file.content)), read |-> TRUE]

\* getNormalizedCitekeys: the keys, and whether cachedRead was called
getNormalizedCitekeys(file) ==
  LET cacheCitekeys == collectNormalizedCitekeys(file.cache) IN
  IF Len(cacheCitekeys) > 0 THEN [keys |-> cacheCitekeys, read |-> FALSE]
  ELSE IF file.content.read # "ok" THEN [keys |-> <<>>, read |-> TRUE]
  ELSE [keys |-> collectNormalizedCitekeys(extractFrontmatter(file.content)), read |-> TRUE]

\* title.split(/[^a-zA-Z0-9぀-ゟ゠-ヿ一-龯]+/)
RECURSIVE splitTitleFrom(_, _, _)
splitTitleFrom(s, i, cur) ==
  IF i > Len(s) THEN <<cur>>
  ELSE IF ~IsLetterOrDigit(s[i])
  THEN IF i > 1 /\ ~IsLetterOrDigit(s[i - 1]) THEN splitTitleFrom(s, i + 1, cur)
       ELSE <<cur>> \o splitTitleFrom(s, i + 1, <<>>)
  ELSE splitTitleFrom(s, i + 1, Append(cur, s[i]))

\* terms.filter(t => t.length > 0)
validTermsOf(title) == SelectSeq(splitTitleFrom(title, 1, <<>>), NonEmpty)

\* mutant: the terms are looked for anywhere in the name, in any order
regexTestFrom_AnyOrder(name, terms, k, from) ==
  \A t \in DOMAIN terms :
    \E i \in 1..(Len(name) - Len(terms[t]) + 1) : HasPrefixCI(name, i, terms[t])

\* new RegExp(validTerms.join(".*"), "i").test(name), from term k on with the
\* terms before it matched up to position from - 1
RECURSIVE regexTestFrom(_, _, _, _)
regexTestFrom(name, terms, k, from) ==
  IF k > Len(terms) THEN TRUE
  ELSE \E i \in from..(Len(name) - Len(terms[k]) + 1) :
         /\ HasPrefixCI(name, i, terms[k])
         /\ k > 1 => \A j \in from..(i - 1) : name[j] \notin LineTerminators
         /\ regexTestFrom(name, terms, k + 1, i + Len(terms[k]))

\* mutant: the last note whose name matches is taken
findByTitle_Last(files, terms) ==
  LET hits == {i \in DOMAIN files : regexTestFrom(files[i].basename, terms, 1, 1)} IN
  IF hits = {} THEN 0 ELSE CHOOSE i \in hits : \A j \in hits : i >= j

\* files.find(file => regex.test(file.basename)): the index of the note, 0 for none
findByTitle(files, terms) ==
  LET hits == {i \in DOMAIN files : regexTestFrom(files[i].basename, terms, 1, 1)} IN
  IF hits = {} THEN 0 ELSE CHOOSE i \in hits : \A j \in hits : i <= j

(***************************************************************************)
(* Specification of the inbound resolver: over a vault of notes an         *)
(* activation arrives with its two parameters; the citekey scan examines   *)
(* one note at each await, and the title plan and the notices follow       *)
(* without suspension.                                                     *)
(***************************************************************************)
HeaderWith(k, v) == JObj(<< [k |-> k, v |-> v] >>)

IbNotes ==
  { Note(<<"a","b"," ","c","d">>, HeaderWith(cCitekey, JStr(<<"A","b">>)),
         Content("ok", TRUE, HeaderWith(cCitekey, JStr(<<"A","b">>)))),
    Note(<<"c","d"," ","a","b">>, JUndefined,
         Content("ok", TRUE, HeaderWith(cCitekey, JStr(<<"@","a","b">>)))),
    Note(<<"a","b"," ","c","d">>, HeaderWith(<<"T","i","t","l","e">>, JStr(<<"x">>)),
         Content("error", FALSE, JNull)),
    Note(<<"x">>, JUndefined, Content("ok", FALSE, JNull)),
    Note(<<"C","D","-","A","B">>, HeaderWith(cCitekey, JStr(<<"z","z">>)),
         Content("ok", TRUE, YamlError)),
    Note(<<"A","B","-","C","D">>, JObj(<<>>),
         Content("ok", TRUE, HeaderWith(<<"Z","o","t","e","r","o","-","K","e","y">>,
                                        JArr(<<JStr(<<"z","z">>), JStr(<<"a","b">>)>>)))) }

IbCitekeys == { JUndefined, JStr(<<>>), JStr(<<"@","A","b">>), JStr(<<"z","z">>), JStr(cAt) }

IbTitles ==
  { JUndefined, JStr(<<>>), JStr(<<"c","d"," ","a","b">>), JStr(<<"a","b">>),
    JStr(<<"A","b","-","c","d">>), JStr(<<"-","-">>) }

\* an activation that has not arrived yet, over the vault v
IbStart(v) ==
  [pc |-> "ready", vault |-> v, files |-> <<>>, citekey |-> JUndefined, title |-> JUndefined,
   key |-> JNull, handled |-> FALSE, i |-> 0,
   examined |-> <<>>, reads |-> <<>>, keysOf |-> <<>>,
   opened |-> 0, notices |-> <<>>]

IbInit ==
  /\ ib \in { IbStart(v) : v \in ListsUpTo(IbNotes, MaxNotes) }
  /\ nz = Idle /\ ck = Idle /\ fm = Idle /\ ex = Idle /\ tm = Idle /\ ob = Idle /\ cc = Idle

\* mutant: one missing parameter is enough to reject
missingParameters_Either(citekey, title) == ~Truthy(citekey) \/ ~Truthy(title)

\* if (!citekey && !title) of the protocol handler
missingParameters(citekey, title) == ~Truthy(citekey) /\ ~Truthy(title)

\* mutant: Plan C of the ZoteroNexus variant, which creates and opens a note
\* named after the title or the citekey
planC_CreateNote(b) ==
  LET baseName == OrElse(b.title, b.citekey)
      newFile == Note(baseName.s, JUndefined,
                      Content("ok", TRUE, HeaderWith(cCitekey, OrElse(b.citekey, JStr(<<>>)))))
  IN  [b EXCEPT !.pc = "done", !.vault = Append(@, newFile),
                !.opened = Len(b.vault) + 1, !.notices = Append(@, "creating")]

\* Plan C: the notice, and nothing else
planC(b) == [b EXCEPT !.pc = "done", !.notices = Append(@, "notFound")]

\* Plan B and Plan C, which run without suspension up to the end of the flow
IbPlanB(b) ==
  LET validTerms == IF Truthy(b.title) THEN validTermsOf(b.title.s) ELSE <<>>
      hit == IF Len(validTerms) > 0 THEN findByTitle(b.files, validTerms) ELSE 0
  IN  IF hit # 0
      THEN [b EXCEPT !.pc = "done", !.opened = hit, !.notices = Append(@, "byTitle")]
      ELSE planC(b)

\* the protocol handler and handleZoteroIncoming up to its first await
protocolHandler(b0, vault, c, t) ==
  LET r == [b0 EXCEPT !.citekey = c, !.title = t]
      b == [r EXCEPT !.handled = TRUE, !.files = vault, !.key = normalizeCitekey(c)]
  IN  IF missingParameters(c, t)
      THEN [r EXCEPT !.pc = "done", !.notices = Append(@, "missingParameters")]
      ELSE IF Truthy(b.key) /\ Len(b.files) > 0
      THEN [b EXCEPT !.pc = "scan", !.i = 1]
      ELSE IbPlanB(b)

\* one turn of the citekey loop: the keys of note i, then open it or go on
examineNote(b0) ==
  LET got == getNormalizedCitekeys(b0.files[b0.i])
      b == [b0 EXCEPT !.examined = Append(@, b0.i),
                      !.keysOf = Append(@, got.keys),
                      !.reads = IF got.read THEN Append(@, b0.i) ELSE @]
  IN  IF includes(got.keys, b0.key.s)
      THEN [b EXCEPT !.pc = "done", !.opened = b0.i, !.notices = Append(@, "byCitekey")]
      ELSE IF b0.i < Len(b0.files)
      THEN [b EXCEPT !.i = @ + 1]
      ELSE IbPlanB(b)

IbActivate ==
  /\ ib.pc = "ready"
  /\ \E c \in IbCitekeys, t \in IbTitles : ib' = protocolHandler(ib, ib.vault, c, t)
  /\ UNCHANGED <<nz, ck, fm, ex, tm, ob, cc>>

IbExamine ==
  /\ ib.pc = "scan"
  /\ ib' = examineNote(ib)
  /\ UNCHANGED <<nz, ck, fm, ex, tm, ob, cc>>

IbNext == IbActivate \/ IbExamine

SpecInbound ==
  IbInit /\ [][IbNext]_vars

(***************************************************************************)
(* Specification of concurrent invocations.  The plugin object has no      *)
(* fields of its own: an invocation keeps what it knows in the locals of   *)
(* its async function.  What invocations share is the application: the     *)
(* vault and the lookup service, which they only read, and the workspace,  *)
(* whose active note the command reads when it is run and openFile sets.   *)
(* The lookup service answers a query the same way each time it is asked.  *)
(***************************************************************************)
CcNotes ==
  { Note(<<"A","b"," ","c","d">>, HeaderWith(cCitekey, JStr(<<"A","b">>)),
         Content("ok", TRUE, HeaderWith(cCitekey, JStr(<<"A","b">>)))),
    Note(<<"c","d">>, JUndefined,
         Content("ok", TRUE, HeaderWith(cCitekey, JStr(<<"@","c","d">>)))) }

\* the note the command is run on, as openInZotero sees it
fileOf(note) == [frontmatter |-> note.cache, basename |-> note.basename]

CcResponses ==
  { Rejected,
    Json(JArr(<< JRec(JUndefined, JUndefined, JUndefined, JUndefined, JUndefined,
                      JStr(<<"a","b">>)) >>)),
    Json(JArr(<< JRec(JStr(cScheme \o libraryPath(cAbKey)), JUndefined, JUndefined, JUndefined,
                      JUndefined, JStr(<<"A","b"," ","c","d">>)) >>)) }

Invocations == 1..MaxInvocations

NotStarted == [kind |-> "none"]

CcInit ==
  /\ cc \in UNION { { [vault |-> v, active |-> a, remote |-> m, opens |-> 0,
                       procs |-> [p \in Invocations |-> NotStarted]] :
                      a \in 1..Len(v),
                      m \in [{ JStr(<<"A","b">>), JStr(<<"A","b"," ","c","d">>), JStr(<<"c","d">>) }
                             -> CcResponses] } :
                    v \in ListsUpTo(CcNotes, MaxNotes) }
  /\ nz = Idle /\ ck = Idle /\ fm = Idle /\ ex = Idle /\ tm = Idle /\ ob = Idle /\ ib = Idle

\* the response of the lookup service to the request an invocation waits for
responseTo(o, remote) == remote[o.requests[Len(o.requests)].query]

\* the workspace after a step of an inbound invocation: openFile makes the
\* note it opens the active one
afterOpenFile(c, b) ==
  IF b.opened # 0 THEN [c EXCEPT !.active = b.opened, !.opens = @ + 1] ELSE c

\* the workspace after a step of an outbound invocation: window.open
afterWindowOpen(c, o) ==
  IF o.opened # JNull THEN [c EXCEPT !.opens = @ + 1] ELSE c

\* the command is run: openInZotero on the active note
CcCommand(p) ==
  /\ cc.procs[p] = NotStarted
  /\ LET o == openInZotero(ObStart, fileOf(cc.vault[cc.active])) IN
     cc' = [cc EXCEPT !.procs[p] = [kind |-> "out", st |-> o]]
  /\ UNCHANGED <<nz, ck, fm, ex, tm, ob, ib>>

\* an activation arrives
CcActivation(p) ==
  /\ cc.procs[p] = NotStarted
  /\ \E c \in { JUndefined, JStr(<<"@","A","b">>), JStr(<<"c","d">>) },
        t \in { JUndefined, JStr(<<"c","d">>) } :
       LET b == protocolHandler(IbStart(cc.vault), cc.vault, c, t) IN
       cc' = [afterOpenFile(cc, b) EXCEPT !.procs[p] = [kind |-> "in", st |-> b]]
  /\ UNCHANGED <<nz, ck, fm, ex, tm, ob, ib>>

\* the lookup an outbound invocation waits for returns
CcLookupReturns(p) ==
  /\ cc.procs[p].kind = "out"
  /\ cc.procs[p].st.pc \in {"keyAwait", "titleAwait"}
  /\ \E r \in {responseTo(cc.procs[p].st, cc.remote)} :
       \E o \in {IF cc.procs[p].st.pc = "keyAwait"
                 THEN afterKeyLookup(cc.procs[p].st, r, fileOf(cc.vault[cc.active]))
                 ELSE afterTitleLookup(cc.procs[p].st, r)} :
         cc' = [afterWindowOpen(cc, o) EXCEPT !.procs[p] = [kind |-> "out", st |-> o]]
  /\ UNCHANGED <<nz, ck, fm, ex, tm, ob, ib>>

\* an inbound invocation goes on with the next note of its scan
CcExamine(p) ==
  /\ cc.procs[p].kind = "in"
  /\ cc.procs[p].st.pc = "scan"
  /\ LET b == examineNote(cc.procs[p].st) IN
     cc' = [afterOpenFile(cc, b) EXCEPT !.procs[p] = [kind |-> "in", st |-> b]]
  /\ UNCHANGED <<nz, ck, fm, ex, tm, ob, ib>>

CcNext ==
  \E p \in Invocations :
    CcCommand(p) \/ CcActivation(p) \/ CcLookupReturns(p) \/ CcExamine(p)

SpecConcurrent ==
  CcInit /\ [][CcNext]_vars

(***************************************************************************)
(* The six-rule table of the select-path normalizer, as the specification  *)
(* states it: each rule is the set of results it allows for a trimmed      *)
(* identifier (empty when the identifier does not have the rule's shape).  *)
(***************************************************************************)
RECURSIVE StripLeft(_)
StripLeft(s) == IF s # <<>> /\ Head(s) \in WhiteSpace THEN StripLeft(Tail(s)) ELSE s

RECURSIVE StripRight(_)
StripRight(s) ==
  IF s # <<>> /\ s[Len(s)] \in WhiteSpace THEN StripRight(SubSeq(s, 1, Len(s) - 1)) ELSE s

IsNumberText(s) == s # <<>> /\ \A i \in DOMAIN s : s[i] \in Digits

IsKeyText(s) ==
  s # <<>> /\ \A i \in DOMAIN s : s[i] \in LowerLetters \cup UpperLetters \cup Digits

SameFolded(a, b) == Len(a) = Len(b) /\ \A i \in DOMAIN a : LowerChar(a[i]) = LowerChar(b[i])

\* the pairs <<N, KEY>> with t = prefix N mid KEY, prefix and mid up to letter case
NumberKeyParts(t, prefix, mid) ==
  IF Len(t) < Len(prefix) \/ ~SameFolded(SubSeq(t, 1, Len(prefix)), prefix) THEN {}
  ELSE
  { <<SubSeq(t, Len(prefix) + 1, Len(prefix) + n),
      SubSeq(t, Len(prefix) + n + Len(mid) + 1, Len(t))>> :
    n \in { m \in 1..Len(t) :
              /\ Len(prefix) + m + Len(mid) < Len(t)
              /\ SameFolded(SubSeq(t, Len(prefix) + m + 1, Len(prefix) + m + Len(mid)), mid)
              /\ IsNumberText(SubSeq(t, Len(prefix) + 1, Len(prefix) + m))
              /\ IsKeyText(SubSeq(t, Len(prefix) + m + Len(mid) + 1, Len(t))) } }

\* the texts KEY with t = prefix KEY, prefix up to letter case
KeyParts(t, prefix) ==
  { SubSeq(t, Len(prefix) + 1, Len(t)) :
    n \in { m \in {Len(prefix)} :
              /\ m < Len(t)
              /\ SameFolded(SubSeq(t, 1, m), prefix)
              /\ IsKeyText(SubSeq(t, m + 1, Len(t))) } }

WebGroups == <<"h","t","t","p","s",":","/","/","z","o","t","e","r","o",".","o","r","g","/","g","r","o","u","p","s","/">>
WebUsers == <<"h","t","t","p","s",":","/","/","z","o","t","e","r","o",".","o","r","g","/","u","s","e","r","s","/">>
WebGroupsPlain == <<"h","t","t","p",":","/","/","z","o","t","e","r","o",".","o","r","g","/","g","r","o","u","p","s","/">>
WebUsersPlain == <<"h","t","t","p",":","/","/","z","o","t","e","r","o",".","o","r","g","/","u","s","e","r","s","/">>

GroupsText(n, k) == <<"g","r","o","u","p","s","/">> \o n \o <<"/","i","t","e","m","s","/">> \o k
LibraryText(k) == <<"l","i","b","r","a","r","y","/","i","t","e","m","s","/">> \o k

RuleScheme(t) ==
  { SubSeq(t, 17, Len(t)) :
    n \in { m \in {16} :
              /\ m < Len(t)
              /\ SameFolded(SubSeq(t, 1, m), cScheme)
              /\ \A i \in (m + 1)..Len(t) : t[i] \notin LineTerminators } }

RuleWeb(t) ==
  { GroupsText(nk[1], nk[2]) :
      nk \in NumberKeyParts(t, WebGroups, cSlashItemsSlash)
             \cup NumberKeyParts(t, WebGroupsPlain, cSlashItemsSlash) }
  \cup
  { LibraryText(nk[2]) :
      nk \in NumberKeyParts(t, WebUsers, cSlashItemsSlash)
             \cup NumberKeyParts(t, WebUsersPlain, cSlashItemsSlash) }

RuleGroups(t) ==
  { GroupsText(nk[1], nk[2]) : nk \in NumberKeyParts(t, cGroupsSlash, cSlashItemsSlash) }

RuleLibrary(t) == { LibraryText(k) : k \in KeyParts(t, cLibraryItems) }

RuleNumbered(t) ==
  { IF nk[1] = <<"0">> THEN LibraryText(nk[2]) ELSE GroupsText(nk[1], nk[2]) :
      nk \in NumberKeyParts(t, cItemsSlash, cUnderscore)
             \cup NumberKeyParts(t, <<>>, cUnderscore) }

RuleBareKey(t) == { LibraryText(k) : k \in KeyParts(t, <<>>) }

RuleTable(t) ==
  <<RuleScheme(t), RuleWeb(t), RuleGroups(t), RuleLibrary(t), RuleNumbered(t), RuleBareKey(t)>>

RecognizedShape(x) ==
  \E r \in 1..6 : RuleTable(StripRight(StripLeft(x)))[r] # {}

FirstRuleResult(x) ==
  LET tab == RuleTable(StripRight(StripLeft(x)))
      hit == {r \in 1..6 : tab[r] # {}}
  IN  IF hit = {} THEN JNull
      ELSE LET r == CHOOSE r \in hit : \A q \in hit : r <= q
           IN  JStr(CHOOSE v \in tab[r] : TRUE)

\* C1: for every raw identifier of one of the six recognized shapes,
\* normalizing the normalized identifier returns the same value:
\* normalize(normalize(x)) = normalize(x).
C1_Idempotent ==
  (nz.pc = "renormalized" /\ RecognizedShape(nz.rawId)) => nz.second = nz.first

\* C2: for every input, normalizeZoteroSelectPath returns the result of the
\* first matching rule of the six-rule table, and absent (null) for empty,
\* whitespace-only and any other input.
C2_FirstMatchingRule ==
  nz.pc # "input" => nz.first = FirstRuleResult(nz.rawId)

\* items/7_Ab has been normalized by the <N>_<KEY> rule to groups/7/items/Ab
C2_Witness ==
  /\ nz.pc = "normalized"
  /\ nz.rawId = cItemsSlash \o <<"7","_","A","b">>
  /\ nz.first = JStr(GroupsText(<<"7">>, <<"A","b">>))

\* the number a decimal text denotes
RECURSIVE DecimalValue(_)
DecimalValue(d) ==
  IF d = <<>> THEN 0
  ELSE 10 * DecimalValue(SubSeq(d, 1, Len(d) - 1))
       + (CHOOSE v \in 0..9 : DigitChars[v + 1] = d[Len(d)])

\* text is the decimal text of the integer n
IsTextOf(text, n) ==
  LET d == IF n < 0 THEN Tail(text) ELSE text IN
  /\ text # <<>>
  /\ (n < 0) = (Head(text) = "-")
  /\ IsNumberText(d)
  /\ (Len(d) > 1 => Head(d) # "0")
  /\ DecimalValue(d) = (IF n < 0 THEN 0 - n ELSE n)

\* what C3 requires of the result for the text of the input
CitekeyOfText(text, out) ==
  LET core == StripRight(StripLeft(text)) IN
  IF core = <<>> \/ core = <<"@">> THEN out = JNull
  ELSE out = JStr([i \in DOMAIN (IF Head(core) = "@" THEN Tail(core) ELSE core) |->
                     LowerChar((IF Head(core) = "@" THEN Tail(core) ELSE core)[i])])

\* C3: normalizeCitekey returns absent for an input that is neither a string
\* nor a number, for an empty or whitespace-only string and for a string that
\* is only the @ prefix; for every other input it returns the input converted
\* to text, trimmed, with a single leading @ removed, and lower-cased.
C3_NormalizeCitekey ==
  ck.pc = "normalized" =>
    CASE ck.raw.t = "string" -> CitekeyOfText(ck.raw.s, ck.out)
      [] ck.raw.t = "number" -> IsStr(ck.out) /\ IsTextOf(ck.out.s, ck.raw.n)
      [] OTHER -> ck.out = JNull

\* "  @Ab " has been normalized to "ab"
C3_Witness ==
  /\ ck.pc = "normalized"
  /\ ck.raw = JStr(<<" ", "@", "A", "b", " ">>)
  /\ ck.out = JStr(<<"a", "b">>)

\* the nine aliases of the citation-key field
NineAliases ==
  << <<"c","i","t","e","k","e","y">>, <<"c","i","t","e","-","k","e","y">>,
     <<"z","o","t","e","r","o","-","k","e","y">>, <<"z","o","t","e","r","o","_","k","e","y">>,
     <<"z","o","t","e","r","o","k","e","y">>,
     <<"b","b","t","-","c","i","t","e","k","e","y">>, <<"b","b","t","_","c","i","t","e","k","e","y">>,
     <<"b","e","t","t","e","r","-","b","i","b","t","e","x","-","c","i","t","e","k","e","y">>,
     <<"b","e","t","t","e","r","b","i","b","t","e","x","c","i","t","e","k","e","y">> >>

IsAliasName(name) ==
  \E a \in DOMAIN NineAliases : SameFolded(StripRight(StripLeft(name)), NineAliases[a])

\* the values of the alias fields of a header, lists flattened, in order
RECURSIVE AliasValues(_)
AliasValues(entries) ==
  IF entries = <<>> THEN <<>>
  ELSE LET f == Head(entries) IN
       (IF ~IsAliasName(f.k) THEN <<>>
        ELSE IF f.v.t = "array" THEN f.v.a ELSE <<f.v>>)
       \o AliasValues(Tail(entries))

\* the positions in vals of the values that normalize to the key x
PositionsOf(vals, x) == {i \in DOMAIN vals : normalizeCitekey(vals[i]) = JStr(x)}

FirstPosition(vals, x) ==
  CHOOSE i \in PositionsOf(vals, x) : \A j \in PositionsOf(vals, x) : i <= j

\* C4: collectNormalizedCitekeys returns a list without duplicates that holds
\* exactly the valid normalized citation keys of the values (scalar or list)
\* of the alias fields, in order of first appearance; invalid values are
\* dropped, other fields are ignored, and a missing header yields the empty list.
C4_CollectCitekeys ==
  fm.pc = "collected" =>
    IF fm.frontmatter.t # "object" THEN fm.keys = <<>>
    ELSE LET vals == AliasValues(fm.frontmatter.e) IN
      /\ \A i, j \in DOMAIN fm.keys : fm.keys[i] = fm.keys[j] => i = j
      /\ { fm.keys[i] : i \in DOMAIN fm.keys }
           = { normalizeCitekey(vals[i]).s :
                 i \in {j \in DOMAIN vals : normalizeCitekey(vals[j]) # JNull} }
      /\ \A i, j \in DOMAIN fm.keys :
           i < j => FirstPosition(vals, fm.keys[i]) < FirstPosition(vals, fm.keys[j])

\* a header whose two alias fields repeat a key across fields has been collected
C4_Witness ==
  /\ fm.pc = "collected"
  /\ fm.frontmatter =
       JObj(<< [k |-> <<"Z","o","t","e","r","o","-","K","e","y">>,
                v |-> JArr(<<JStr(<<"@","A","b">>)>>)],
               [k |-> <<"c","i","t","e","k","e","y">>, v |-> JStr(<<"a","b">>)] >>)
  /\ fm.keys = << <<"a","b">> >>

\* a non-empty string
IsText(v) == v.t = "string" /\ v.s # <<>>

\* a number, or a string that is the decimal text of a number
IsNumericId(v) ==
  \/ v.t = "number" /\ "nan" \notin DOMAIN v
  \/ v.t = "string" /\ IsNumberText(v.s)

NumericIdValue(v) == IF v.t = "number" THEN v.n ELSE DecimalValue(v.s)

\* the result C5 states for a candidate record
RecordSelectPath(r) ==
  LET direct == IF r.id.t = "string" THEN FirstRuleResult(r.id.s) ELSE JNull IN
  IF direct # JNull THEN direct
  ELSE IF ~IsText(r.key) /\ ~IsText(r.itemKey) THEN JNull
  ELSE LET key == IF IsText(r.key) THEN r.key.s ELSE r.itemKey.s IN
       IF IsNumericId(r.groupID)
       THEN JStr(GroupsText(String(NumericIdValue(r.groupID)), key))
       ELSE IF IsNumericId(r.groupId)
       THEN JStr(GroupsText(String(NumericIdValue(r.groupId)), key))
       ELSE JStr(LibraryText(key))

\* C5: extractZoteroSelectPath prefers the direct identifier: a string id that
\* normalizes to a SelectPath is the result whatever the key and group fields
\* hold; otherwise a string key (key or itemKey) gives groups/<id>/items/<key>
\* when a numeric group id (a number or a numeric string in groupID/groupId) is
\* present and library/items/<key> when it is not; otherwise the result is
\* absent.  A string candidate is normalized directly, a null candidate is absent.
C5_ExtractSelectPath ==
  ex.pc = "extracted" =>
    CASE ex.entry.t = "string" -> ex.out = FirstRuleResult(ex.entry.s)
      [] ex.entry.t = "object" -> ex.out = RecordSelectPath(ex.entry)
      [] OTHER -> ex.out = JNull

\* the entry has a string title that is not empty after trimming, and the
\* lower-cased trimmed title contains every term as a substring
TitleHasAllTerms(entry, terms) ==
  /\ entry.t = "object"
  /\ entry.title.t = "string"
  /\ LET title == StripRight(StripLeft(entry.title.s)) IN
     /\ title # <<>>
     /\ \A w \in DOMAIN terms :
          \E from \in 1..Len(title), to \in 0..Len(title) :
            /\ to - from + 1 = Len(terms[w])
            /\ \A c \in from..to : LowerChar(title[c]) = terms[w][c - from + 1]

\* C6: findTitleMatch returns the first entry, in list order, that has a
\* non-empty (after trimming) string title whose lower-cased form contains
\* every term; with zero terms the first entry with a non-empty title; absent
\* when the list is empty, no entry has a title, or no titled entry has all terms.
C6_FindTitleMatch ==
  tm.pc = "found" =>
    LET hits == {i \in DOMAIN tm.entries : TitleHasAllTerms(tm.entries[i], tm.terms)} IN
    IF hits = {} THEN tm.found = 0 /\ tm.match = JNull
    ELSE /\ tm.found \in hits
         /\ \A i \in hits : tm.found <= i
         /\ tm.match = tm.entries[tm.found]

\* the second of two titled entries is the first to contain both terms
C6_Witness ==
  /\ tm.pc = "found"
  /\ tm.entries = <<Titled(JStr(<<"C","D"," ","e">>)), Titled(JStr(<<"A","b"," ","c","d">>))>>
  /\ tm.terms = << <<"a","b">>, <<"c","d">> >>
  /\ tm.found = 2

\* a key value: a non-empty text, or a list with some element
IsKeyValue(v) == IsText(v) \/ (v.t = "array" /\ v.a # <<>>)

\* the values the header of the note gives under the field called name
ObFieldValues(name) ==
  IF ob.file.frontmatter.t # "object" THEN {}
  ELSE {ob.file.frontmatter.e[i].v : i \in {j \in DOMAIN ob.file.frontmatter.e :
                                             ob.file.frontmatter.e[j].k = name}}

\* the note declares a citation key, under citekey or zotero-key
ObKeyDeclared ==
  \E v \in ObFieldValues(cCitekey) \cup ObFieldValues(cZoteroKey) : IsKeyValue(v)

ObTitleRequests == {i \in DOMAIN ob.requests : ob.requests[i].plan = "title"}

\* the key lookup has returned and its first candidate yields a SelectPath
ObKeyHit ==
  /\ ObKeyDeclared
  /\ ob.returns >= 1
  /\ ob.keyFirst # JUndefined
  /\ extractZoteroSelectPath(ob.keyFirst) # JNull

\* there is no key, or the key lookup has returned no candidate or a first
\* candidate without a SelectPath
ObKeyMiss ==
  \/ ~ObKeyDeclared
  \/ /\ ob.returns >= 1
     /\ \/ ob.keyFirst = JUndefined
        \/ extractZoteroSelectPath(ob.keyFirst) = JNull

\* the candidates of the last response whose title has all terms of the note's name
ObTitleHits == {i \in DOMAIN ob.lastResult : TitleHasAllTerms(ob.lastResult[i], ob.terms)}

ObFirstTitleHit == ob.lastResult[CHOOSE i \in ObTitleHits : \A j \in ObTitleHits : i <= j]

C8_LookupNeverFails ==
  /\ ob.pc # "crashed"
  /\ Len(ob.requests) = ob.calls
  /\ ob.returns <= ob.calls /\ ob.calls <= ob.returns + 1
  /\ (ob.pc \in {"keyAwait", "titleAwait"}) = (ob.calls = ob.returns + 1)
  /\ ob.returns >= 1 =>
       IF ob.lastResponse.kind = "json" /\ ob.lastResponse.result.t = "array"
       THEN ob.lastResult = ob.lastResponse.result.a
       ELSE ob.lastResult = <<>>

\* a lookup whose request was rejected by the transport has returned no
\* candidate and the resolver has gone on to its next query
C8_Witness ==
  /\ ob.pc = "titleAwait"
  /\ ob.returns >= 1
  /\ ob.lastResponse = Rejected
  /\ ob.lastResult = <<>>

\* the NoteCitekeySet of a note: the keys of the indexed header, or of the
\* header block of the raw content when the indexed header gives none
NoteCitekeySet(note) ==
  LET indexed == collectNormalizedCitekeys(note.cache) IN
  IF indexed # <<>> THEN {indexed[i] : i \in DOMAIN indexed}
  ELSE IF note.content.read = "ok" /\ note.content.fenced
          /\ note.content.yaml.t \in {"object", "array"}
  THEN LET parsed == collectNormalizedCitekeys(note.content.yaml) IN
       {parsed[i] : i \in DOMAIN parsed}
  ELSE {}

IbKeyValid == ib.key # JNull

\* the notes whose NoteCitekeySet contains the normalized incoming key
IbKeyMatches ==
  IF IbKeyValid THEN {n \in DOMAIN ib.files : ib.key.s \in NoteCitekeySet(ib.files[n])} ELSE {}

IbFirstKeyMatch == CHOOSE n \in IbKeyMatches : \A m \in IbKeyMatches : n <= m

\* C9: when the incoming citation key normalizes to a valid key, the note
\* opened is the first note in enumeration order whose NoteCitekeySet contains
\* it; the scan stops there, no later note is examined, and the citekey match
\* wins over any title match, even one on an earlier note.
C9_FirstCitekeyMatch ==
  (ib.pc # "ready" /\ IbKeyValid /\ IbKeyMatches # {}) =>
    /\ \A e \in DOMAIN ib.examined : ib.examined[e] = e /\ e <= IbFirstKeyMatch
    /\ ib.pc = "done" =>
         /\ ib.opened = IbFirstKeyMatch
         /\ ib.notices = <<"byCitekey">>
         /\ Len(ib.examined) = IbFirstKeyMatch

\* the second note is opened by its citekey although the first note's name
\* matches the title
C9_Witness ==
  /\ ib.pc = "done"
  /\ Len(ib.files) = 2
  /\ ib.title = JStr(<<"a","b">>)
  /\ ib.files[1].basename = <<"a","b"," ","c","d">>
  /\ ib.key = JStr(<<"a","b">>)
  /\ ib.opened = 2
  /\ ib.notices = <<"byCitekey">>

\* the maximal runs of letters and digits of a title, as <<first, last>> pairs
TokenRuns(title) ==
  { <<a, b>> \in (1..Len(title)) \X (1..Len(title)) :
      /\ a <= b
      /\ \A c \in a..b : title[c] \in LowerLetters \cup UpperLetters \cup Digits
      /\ (a = 1 \/ title[a - 1] \notin LowerLetters \cup UpperLetters \cup Digits)
      /\ (b = Len(title) \/ title[b + 1] \notin LowerLetters \cup UpperLetters \cup Digits) }

\* name contains the tokens of title, up to letter case, in the order of the
\* title, one after the end of the other
ContainsTokensInOrder(name, title) ==
  \E at \in [TokenRuns(title) -> 1..(Len(name) + 1)] :
    /\ \A r \in TokenRuns(title) :
         /\ at[r] + (r[2] - r[1]) <= Len(name)
         /\ \A c \in r[1]..r[2] : LowerChar(name[at[r] + (c - r[1])]) = LowerChar(title[c])
    /\ \A r, q \in TokenRuns(title) : r[1] < q[1] => at[r] + (r[2] - r[1]) < at[q]

IbTitleMatches ==
  IF ib.title.t = "string"
  THEN {n \in DOMAIN ib.files : ContainsTokensInOrder(ib.files[n].basename, ib.title.s)}
  ELSE {}

\* C10: when no note matches by citation key (or the key is invalid) and a
\* title is supplied that yields at least one token, the note opened is the
\* first note in enumeration order whose display name contains all title
\* tokens case-insensitively in the order of the title, with any text between
\* consecutive tokens; a name with the tokens only in another order is no match.
C10_FirstTitleMatch ==
  (/\ ib.pc = "done"
   /\ IbKeyMatches = {}
   /\ ib.title.t = "string"
   /\ TokenRuns(ib.title.s) # {}) =>
    IF IbTitleMatches = {} THEN ib.opened = 0 /\ ib.notices = <<"notFound">>
    ELSE /\ ib.opened \in IbTitleMatches
         /\ \A n \in IbTitleMatches : ib.opened <= n
         /\ ib.notices = <<"byTitle">>

\* the title "cd ab" opens the second note: the first note's name has the two
\* tokens in the other order
C10_Witness ==
  /\ ib.pc = "done"
  /\ ib.title = JStr(<<"c","d"," ","a","b">>)
  /\ Len(ib.files) = 2
  /\ ib.files[1].basename = <<"a","b"," ","c","d">>
  /\ ib.opened = 2
  /\ ib.notices = <<"byTitle">>

\* the activation carried a title and no citekey
IbTitleOnly == ib.pc = "done" /\ ~Truthy(ib.citekey) /\ ib.title.t = "string"

\* name contains every token of title somewhere, up to letter case
ContainsAllTokens(name, title) ==
  \A r \in TokenRuns(title) :
    \E at \in 1..(Len(name) - (r[2] - r[1])) :
      \A c \in r[1]..r[2] : LowerChar(name[at + (c - r[1])]) = LowerChar(title[c])

IbTokenHolders ==
  {n \in DOMAIN ib.files : ContainsAllTokens(ib.files[n].basename, ib.title.s)}

\* C11 as stated: for an activation that carries only a title, whenever two
\* notes' names both contain all of the title's tokens, the note opened is the
\* one that comes first in enumeration order.
C11_FirstOfTokenHolders ==
  (/\ IbTitleOnly
   /\ TokenRuns(ib.title.s) # {}
   /\ Cardinality(IbTokenHolders) >= 2) =>
    /\ ib.opened \in IbTokenHolders
    /\ \A n \in IbTokenHolders : ib.opened <= n

\* C11 amended: for an activation that carries only a title, whenever two
\* notes' names both contain all of the title's tokens in the order of the
\* title, the note opened is the one that comes first in enumeration order.
C11_FirstOfOrderedHolders ==
  (/\ IbTitleOnly
   /\ TokenRuns(ib.title.s) # {}
   /\ Cardinality(IbTitleMatches) >= 2) =>
    /\ ib.opened \in IbTitleMatches
    /\ \A n \in IbTitleMatches : ib.opened <= n
    /\ ib.examined = <<>>

\* two notes whose names both hold "ab" then "cd": the first one is opened
C11_Witness ==
  /\ IbTitleOnly
  /\ ib.title = JStr(<<"A","b","-","c","d">>)
  /\ Cardinality(IbTitleMatches) = 2
  /\ ib.files[1] # ib.files[2]
  /\ ib.opened = 1

AbsentOrEmpty(v) == v = JUndefined \/ v = JStr(<<>>)

\* C12: an activation whose citekey and title are both absent or empty is
\* rejected: a notice is shown, the note collection is not scanned and no note
\* is opened; an activation with at least one non-empty parameter is passed on
\* to the inbound resolver.
C12_RejectsMissingParameters ==
  ib.pc # "ready" =>
    IF AbsentOrEmpty(ib.citekey) /\ AbsentOrEmpty(ib.title)
    THEN /\ ib.pc = "done"
         /\ ib.notices = <<"missingParameters">>
         /\ ~ib.handled
         /\ ib.examined = <<>> /\ ib.reads = <<>>
         /\ ib.opened = 0
    ELSE /\ ib.handled
         /\ \A n \in DOMAIN ib.notices : ib.notices[n] # "missingParameters"

\* an empty citekey and no title over a vault of two notes: rejected
C12_Witness ==
  /\ ib.pc = "done"
  /\ ib.citekey = JStr(<<>>) /\ ib.title = JUndefined
  /\ Len(ib.vault) = 2 /\ ib.files = <<>>
  /\ ib.notices = <<"missingParameters">>

\* the title plan has a note to open
IbTitlePlanFinds ==
  ib.title.t = "string" /\ TokenRuns(ib.title.s) # {} /\ IbTitleMatches # {}

\* C13: in the primary variant, when neither the citekey plan nor the title
\* plan finds a note, the flow ends with the 'not found' notice, no note is
\* opened, and the note collection is as the flow found it: no note is
\* created or modified, at any point of the flow.
C13_NotFoundLeavesVault ==
  /\ ib.handled => ib.vault = ib.files
  /\ Len(ib.vault) <= MaxNotes
  /\ \A n \in DOMAIN ib.vault : ib.vault[n] \in IbNotes
  /\ (ib.pc = "done" /\ ib.handled /\ IbKeyMatches = {} /\ ~IbTitlePlanFinds) =>
       /\ ib.notices = <<"notFound">>
       /\ ib.opened = 0

\* a valid key and a title, two notes examined, neither plan finds one
C13_Witness ==
  /\ ib.pc = "done"
  /\ ib.key = JStr(<<"z","z">>)
  /\ ib.title = JStr(<<"c","d"," ","a","b">>)
  /\ ib.examined = <<1, 2>>
  /\ ib.notices = <<"notFound">>
  /\ ib.opened = 0
  /\ ib.vault = ib.files

\* a field name without its hyphens and underscores, in lower case
RECURSIVE Squash(_)
Squash(name) ==
  IF name = <<>> THEN <<>>
  ELSE IF Head(name) \in {"-", "_"} THEN Squash(Tail(name))
  ELSE <<LowerChar(Head(name))>> \o Squash(Tail(name))

IsAliasUpToSeparators(name) ==
  \E a \in DOMAIN NineAliases : Squash(StripRight(StripLeft(name))) = Squash(NineAliases[a])

\* the values of the fields named by an alias up to case and separators
RECURSIVE SeparatorAliasValues(_)
SeparatorAliasValues(entries) ==
  IF entries = <<>> THEN <<>>
  ELSE LET f == Head(entries) IN
       (IF ~IsAliasUpToSeparators(f.k) THEN <<>>
        ELSE IF f.v.t = "array" THEN f.v.a ELSE <<f.v>>)
       \o SeparatorAliasValues(Tail(entries))

\* C14: collectNormalizedCitekeys takes a header field for a citation-key
\* field whenever its name equals one of the nine aliases up to letter case
\* and up to the presence or kind of hyphen/underscore separators, and
\* collects the values of every such field.
C14_SeparatorInsensitiveAliases ==
  (fm.pc = "collected" /\ fm.frontmatter.t = "object") =>
    LET vals == SeparatorAliasValues(fm.frontmatter.e) IN
    { fm.keys[i] : i \in DOMAIN fm.keys }
      = { normalizeCitekey(vals[i]).s :
            i \in {j \in DOMAIN vals : normalizeCitekey(vals[j]) # JNull} }

\* the key texts the header of the note declares under the nine aliases:
\* the non-empty text values and the non-empty text elements of list values
ObAliasKeys ==
  IF ob.file.frontmatter.t # "object" THEN {}
  ELSE LET e == ob.file.frontmatter.e
           at == {i \in DOMAIN e : IsAliasName(e[i].k)}
       IN  {e[i].v : i \in {j \in at : IsText(e[j].v)}}
           \cup UNION { {e[i].v.a[n] : n \in {m \in DOMAIN e[i].v.a : IsText(e[i].v.a[m])}} :
                        i \in {j \in at : e[j].v.t = "array"} }

\* C15: the outbound resolver takes the declared citation key from the first
\* of the nine alias fields present in the header of the note, list values
\* included, so a note that declares its key under any alias is looked up by
\* that key before the title fallback.
C15_AnyAliasLookedUpByKey ==
  (ob.pc # "ready" /\ ObAliasKeys # {}) =>
    /\ ob.requests # <<>>
    /\ ob.requests[1].plan = "key"
    /\ ob.requests[1].query \in ObAliasKeys

\* the maximal runs of non-blank characters of a text, as <<first, last>> pairs
WordRuns(s) ==
  { <<a, b>> \in (1..Len(s)) \X (1..Len(s)) :
      /\ a <= b
      /\ \A c \in a..b : s[c] \notin WhiteSpace
      /\ (a = 1 \/ s[a - 1] \in WhiteSpace)
      /\ (b = Len(s) \/ s[b + 1] \in WhiteSpace) }

\* the words of a text, in order of appearance
WordsOf(s) ==
  LET runs == WordRuns(s)
      nth(n) == CHOOSE r \in runs : Cardinality({q \in runs : q[1] <= r[1]}) = n
  IN  [n \in 1..Cardinality(runs) |-> SubSeq(s, nth(n)[1], nth(n)[2])]

\* the query list: the cleaned title, then its words, without the empty
\* text and without a text that came before
QueryList(cleanTitle) ==
  LET all == <<cleanTitle>> \o WordsOf(cleanTitle)
      kept == {i \in DOMAIN all : all[i] # <<>> /\ \A j \in 1..(i - 1) : all[j] # all[i]}
      nth(n) == CHOOSE i \in kept : Cardinality({j \in kept : j <= i}) = n
  IN  [n \in 1..Cardinality(kept) |-> all[nth(n)]]

\* the number of requests of the key plan
ObKeyRequests == Len(ob.requests) - Cardinality(ObTitleRequests)

\* the candidates of the k-th title lookup whose title has all terms
ObTitleHitsOf(k) ==
  LET list == ob.results[ObKeyRequests + k] IN
  {i \in DOMAIN list : TitleHasAllTerms(list[i], ob.terms)}

ObFirstHitOf(k) ==
  ob.results[ObKeyRequests + k][CHOOSE i \in ObTitleHitsOf(k) : \A j \in ObTitleHitsOf(k) : i <= j]

\* C16: searchByTitle issues its lookups one at a time, for the cleaned title
\* first and then for each of its words in order of appearance, duplicates and
\* empty queries left out; a lookup is issued only after the one before it has
\* returned without a title match, so at most one is outstanding and there are
\* no more lookups than distinct non-empty queries; the result comes from the
\* first query that returns a title-matching candidate, and from the first
\* such candidate of that query.
C16_SequentialTitleLookups ==
  LET Q == QueryList(cleanTitleOf(ob.file.basename))
      T == Cardinality(ObTitleRequests)
  IN  /\ T <= Len(Q)
      /\ \A k \in 1..T :
           /\ ob.requests[ObKeyRequests + k].plan = "title"
           /\ ob.requests[ObKeyRequests + k].query = JStr(Q[k])
      /\ ob.calls <= ob.returns + 1
      /\ \A k \in 2..T :
           /\ Len(ob.results) >= ObKeyRequests + k - 1
           /\ ObTitleHitsOf(k - 1) = {}
      /\ (ob.pc = "done" /\ T > 0) =>
           /\ Len(ob.results) = ObKeyRequests + T
           /\ IF ObTitleHitsOf(T) = {} THEN ob.opened = JNull
              ELSE IF extractZoteroSelectPath(ObFirstHitOf(T)) = JNull THEN ob.opened = JNull
              ELSE ob.opened = JStr(cScheme \o extractZoteroSelectPath(ObFirstHitOf(T)).s)

\* three lookups for the note "Ab cd", the third one brings the match
C16_Witness ==
  /\ ob.pc = "done"
  /\ ob.file.basename = <<"A","b"," ","c","d">>
  /\ Len(ob.requests) = 3
  /\ ob.requests[3] = [plan |-> "title", query |-> JStr(<<"c","d">>)]
  /\ Len(ob.results[3]) = 2
  /\ ObTitleHitsOf(3) = {2}
  /\ ob.opened # JNull

\* the flow has ended with the 'no matching item' notice
ObNotFound == ob.pc = "done" /\ ob.notices # <<>> /\ ob.notices[Len(ob.notices)] = "noMatch"

\* C17: the title search reports 'not found' only when every query of the
\* query list has been issued and none of them returned a candidate whose
\* title has all terms; whenever some query returns such a candidate, the
\* resolution returns its SelectPath and a select URI is opened.
C17_NotFoundOnlyWhenExhausted ==
  LET Q == QueryList(cleanTitleOf(ob.file.basename))
      T == Cardinality(ObTitleRequests)
      returned == {k \in 1..T : Len(ob.results) >= ObKeyRequests + k}
  IN  /\ ObNotFound =>
           /\ T = Len(Q)
           /\ \A k \in returned : ObTitleHitsOf(k) = {}
      /\ (ob.pc = "done" /\ \E k \in returned : ObTitleHitsOf(k) # {}) =>
           /\ ob.opened # JNull
           /\ \E k \in returned :
                /\ ObTitleHitsOf(k) # {}
                /\ extractZoteroSelectPath(ObFirstHitOf(k)) # JNull
                /\ ob.opened = JStr(cScheme \o extractZoteroSelectPath(ObFirstHitOf(k)).s)

\* the keys of the leading header block of the raw content of a note: none
\* when the read fails, the block is missing or it is malformed
RawHeaderKeys(note) ==
  IF note.content.read = "ok" /\ note.content.fenced
     /\ note.content.yaml.t \in {"object", "array"}
  THEN collectNormalizedCitekeys(note.content.yaml)
  ELSE <<>>

\* C18 as stated: the raw content of a note is read and re-parsed only if its
\* indexed header is unavailable; when the indexed header is available its
\* keys are the result and no read is issued for the note; a failed read or a
\* malformed header gives the empty set.
C18_ReadOnlyWithoutIndex ==
  \A e \in DOMAIN ib.examined :
    LET note == ib.files[ib.examined[e]]
        wasRead == \E r \in DOMAIN ib.reads : ib.reads[r] = ib.examined[e]
    IN  IF note.cache # JUndefined
        THEN ~wasRead /\ ib.keysOf[e] = collectNormalizedCitekeys(note.cache)
        ELSE wasRead /\ ib.keysOf[e] = RawHeaderKeys(note)

\* C18 amended: the raw content of a note is read and re-parsed only if its
\* indexed header gives no citation key (it is unavailable or declares none);
\* when the indexed header gives a key its keys are the result and no read is
\* issued for the note; a failed read or a malformed header gives the empty
\* set, and the scan goes on.
C18_ReadOnlyWithoutIndexedKeys ==
  /\ Len(ib.keysOf) = Len(ib.examined)
  /\ \A e \in DOMAIN ib.examined :
       LET note == ib.files[ib.examined[e]]
           indexed == collectNormalizedCitekeys(note.cache)
           timesRead == Cardinality({r \in DOMAIN ib.reads : ib.reads[r] = ib.examined[e]})
       IN  IF indexed # <<>>
           THEN timesRead = 0 /\ ib.keysOf[e] = indexed
           ELSE timesRead = 1 /\ ib.keysOf[e] = RawHeaderKeys(note)

\* the first note answers from its indexed header, the second one has an
\* indexed header without a key and a read that fails: no key, and the flow
\* ends normally
C18_Witness ==
  /\ ib.pc = "done"
  /\ ib.examined = <<1, 2>>
  /\ ib.reads = <<2>>
  /\ ib.files[2].cache # JUndefined
  /\ ib.files[2].content.read = "error"
  /\ ib.keysOf = << <<<<"z","z">>>>, <<>> >>

\* the states an outbound invocation goes through when it runs alone, from the
\* state o on, with the lookup service answering as remote does
RECURSIVE OutAlone(_, _)
OutAlone(o, remote) ==
  {o} \cup
  (IF o.pc = "keyAwait" THEN OutAlone(afterKeyLookup(o, responseTo(o, remote), o.file), remote)
   ELSE IF o.pc = "titleAwait" THEN OutAlone(afterTitleLookup(o, responseTo(o, remote)), remote)
   ELSE {})

\* the states an inbound invocation goes through when it runs alone
RECURSIVE InAlone(_)
InAlone(b) == {b} \cup (IF b.pc = "scan" THEN InAlone(examineNote(b)) ELSE {})

\* the invocations that have ended with something opened
CcOpeners ==
  {p \in Invocations :
     \/ cc.procs[p].kind = "out" /\ cc.procs[p].st.opened # JNull
     \/ cc.procs[p].kind = "in" /\ cc.procs[p].st.opened # 0}

\* C19: concurrent invocations of the outbound and inbound flows do not
\* interfere: under every interleaving of their suspension points each
\* invocation issues the lookups, examines the notes and reaches the outcome
\* it would when run alone on the same note or parameters against the same
\* lookup service and vault; and invocations are not deduplicated: each one
\* that finds something opens it, also when another one did so for the same note.
C19_InvocationsIndependent ==
  /\ \A p \in Invocations :
       LET proc == cc.procs[p] IN
       /\ proc.kind = "out" =>
            /\ proc.st.pc # "crashed"
            /\ proc.st \in OutAlone(openInZotero(ObStart, proc.st.file), cc.remote)
       /\ proc.kind = "in" =>
            proc.st \in InAlone(protocolHandler(IbStart(cc.vault), cc.vault,
                                                proc.st.citekey, proc.st.title))
  /\ cc.opens = Cardinality(CcOpeners)

\* two invocations of the command on the same note have both ended, each
\* after a key lookup without result and a title lookup that found the item
C19_Witness ==
  /\ \A p \in Invocations :
       /\ cc.procs[p].kind = "out"
       /\ cc.procs[p].st.pc = "done"
       /\ cc.procs[p].st.notices = <<"keyNotFound", "searching", "foundByTitle">>
       /\ cc.procs[p].st.file = cc.procs[1].st.file
  /\ cc.opens = MaxInvocations

\* a well-formed SelectPath: library/items/<KEY> or groups/<N>/items/<KEY>,
\* <KEY> letters and digits, <N> digits
WellFormedSelectPath(path) ==
  \/ \E a \in 1..Len(path) :
       LET k == SubSeq(path, a, Len(path)) IN IsKeyText(k) /\ path = LibraryText(k)
  \/ \E a, b \in 1..Len(path) :
       /\ a < b
       /\ LET n == SubSeq(path, 8, a)
              k == SubSeq(path, b, Len(path))
          IN  IsNumberText(n) /\ IsKeyText(k) /\ path = GroupsText(n, k)

\* C20: every value, other than absent, that extractZoteroSelectPath or
\* normalizeZoteroSelectPath returns, and so every path the outbound resolver
\* appends to the select URI, is a well-formed SelectPath.
C20_WellFormedSelectPaths ==
  /\ (nz.pc # "idle" /\ nz.pc # "input" /\ nz.first # JNull) => WellFormedSelectPath(nz.first.s)
  /\ (ex.pc = "extracted" /\ ex.out # JNull) => WellFormedSelectPath(ex.out.s)
  /\ (ob.pc = "done" /\ ob.opened # JNull) =>
       \E path \in {SubSeq(ob.opened.s, Len(cScheme) + 1, Len(ob.opened.s))} :
         /\ ob.opened.s = cScheme \o path
         /\ WellFormedSelectPath(path)

\* a citation key in canonical form: not empty, no blank at either end, no
\* leading @, no upper-case letter, and unchanged by normalizing it again
CanonicalCitekey(key) ==
  /\ key # <<>>
  /\ key[1] \notin WhiteSpace /\ key[Len(key)] \notin WhiteSpace
  /\ key[1] # "@"
  /\ \A i \in DOMAIN key : key[i] \notin UpperLetters
  /\ normalizeCitekey(JStr(key)) = JStr(key)

\* C21: every value, other than absent, that normalizeCitekey returns is in
\* canonical form, and so is every element of a list that
\* collectNormalizedCitekeys returns.
C21_CanonicalCitekeys ==
  /\ (ck.pc = "normalized" /\ ck.out # JNull) =>
       ck.out.t = "string" /\ CanonicalCitekey(ck.out.s)
  /\ fm.pc = "collected" => \A i \in DOMAIN fm.keys : CanonicalCitekey(fm.keys[i])

====
